---------------------------- MODULE Spec2Model ----------------------------
(***************************************************************************)
(* Client-side orchestration of reinana/questionnaireApp.                  *)
(*                                                                         *)
(* The repository holds three variants of the same browser script:         *)
(*   "part_000"  src/unnamed/part_000  (sheet id looked up per template)   *)
(*   "part_001"  src/unnamed/part_001  (sheet id typed in per upload)      *)
(*   "script"    src/frontend/script.js (token cached at sign-in)          *)
(* A page loads exactly one of them; `variant` is fixed by Init.           *)
(*                                                                         *)
(* JavaScript is single-threaded: a handler runs without interruption up   *)
(* to its next `await` of a network call.  Each action below is one such   *)
(* run-to-suspension segment of a handler.  An `await` on a promise that   *)
(* is already settled (getIdToken() throwing for a signed-out user) is     *)
(* resumed in the microtask queue, before any other event, and is part of  *)
(* the same segment.                                                       *)
(*                                                                         *)
(* Text is a sequence of strings.  The Japanese literals of the source are *)
(* rendered as ASCII glosses (the original is quoted beside each one);     *)
(* user-typed text is a sequence of one-character strings, so that trim()  *)
(* is computed and not assumed.                                            *)
(***************************************************************************)
EXTENDS Integers, Sequences, FiniteSets

\* ------------------------------------------------------------- bounds

\* Handler invocations (jobs) that may be running at the same time.
MaxJobs == 2
\* Auth-state callbacks that may be suspended at the same time.
MaxAuth == 1
\* showSheetIdForTemplate calls that may be suspended at the same time.
MaxLookups == 1

\* ------------------------------------------------------------ domains

Variants == {"part_000", "part_001", "script"}
Users == {"u1", "u2"}
\* auth.currentUser === null
NoUser == "none"
Surfaces == {"template", "upload"}
JobIds == 1..MaxJobs
LookupIds == 1..MaxLookups

\* Texts a user may have typed into a field: nothing, a blank, and a name
\* after a blank.
TextInputs == {<<>>, <<" ">>, <<" ", "a">>}
\* Numbers of files a user may have attached to an upload.
FileCounts == {0, 1, 2}

\* Response bodies the remote functions may send, and the messages of the
\* exceptions the platform may raise.
Bodies == {<<"Processed 2 files">>, <<"bad request">>}
NetworkErrorMessage == <<"Failed to fetch">>
TokenErrorMessage == <<"auth/network-request-failed">>
\* Sheet ids the lookup endpoint may report; <<>> stands for null / absent.
SheetIds == {<<>>, <<"sheet-1">>}

\* --------------------------------------------------------------- text

RECURSIVE TrimStart(_)
TrimStart(s) ==
  IF s # <<>> /\ Head(s) = " " THEN TrimStart(Tail(s)) ELSE s

RECURSIVE TrimEnd(_)
TrimEnd(s) ==
  IF s # <<>> /\ s[Len(s)] = " " THEN TrimEnd(SubSeq(s, 1, Len(s) - 1)) ELSE s

\* String.prototype.trim
Trim(s) == TrimEnd(TrimStart(s))

Digit(d) ==
  CASE d = 0 -> "0" [] d = 1 -> "1" [] d = 2 -> "2" [] d = 3 -> "3"
    [] d = 4 -> "4" [] d = 5 -> "5" [] d = 6 -> "6" [] d = 7 -> "7"
    [] d = 8 -> "8" [] d = 9 -> "9"

\* ${files.length}: a number in a template literal
RECURSIVE NumText(_)
NumText(n) ==
  IF n < 10 THEN <<Digit(n)>> ELSE NumText(n \div 10) \o <<Digit(n % 10)>>

\* "未ログインです"
NotLoggedInMessage == <<"not logged in">>
\* "ログインしてください。"
PleaseLogInText == <<"please log in">>
\* error.message of a rejected signInWithPopup
LoginErrorMessage == <<"auth/popup-closed-by-user">>
\* `ログインエラー: ${error.message}`
LoginErrorText(msg) == <<"login error: ">> \o msg
\* "テンプレートの読み込みに失敗しました。"
LoadFailedText == <<"failed to load templates">>
\* "テンプレート名・シートURL・ファイルをすべて入力してください。"
TemplateMissingText000 == <<"enter template name, sheet URL and file">>
\* "テンプレート名とファイルを選択してください。"
TemplateMissingText == <<"choose template name and file">>
\* "テンプレートとファイルを選択してください。"
UploadMissingText000 == <<"choose template and files">>
\* "テンプレート、シートID、ファイルすべてを選択・入力してください。"
UploadMissingText == <<"choose template, sheet id and files">>
\* `テンプレート「${templateName}」を作成中...`
CreatingText(name) == <<"creating template [">> \o name \o <<"]...">>
\* `テンプレートの作成に失敗しました：${err.message}`
TemplateFailedText(msg) == <<"template creation failed: ">> \o msg
\* "テンプレートの作成に失敗しました。"
TemplateFailedPlainText == <<"template creation failed.">>
\* `アップロード中... (${files.length}件)`
UploadingText(n) == <<"uploading... (">> \o NumText(n) \o <<" files)">>
\* `サーバーからの返事: ${text}`
ServerReplyText(text) == <<"reply from server: ">> \o text
\* `通信エラーが発生しました：${err.message}`
CommErrorText(msg) == <<"communication error: ">> \o msg
\* "通信エラーが発生しました。"
CommErrorPlainText == <<"communication error.">>
\* "未選択"
NotSelectedText == <<"not selected">>
\* "取得できませんでした"
CouldNotGetText == <<"could not get">>
\* "エラーが発生しました"
ErrorOccurredText == <<"an error occurred">>

\* ---------------------------------------------------- document store

\* Character order of document ids.
CharRank(c) == IF c = " " THEN 0 ELSE 1

RECURSIVE IdLess(_, _)
IdLess(s, t) ==
  IF s = <<>> THEN t # <<>>
  ELSE IF t = <<>> THEN FALSE
  ELSE IF Head(s) = Head(t) THEN IdLess(Tail(s), Tail(t))
  ELSE CharRank(Head(s)) < CharRank(Head(t))

\* getDocs(colRef) + snap.forEach: the ids of a collection, in id order.
RECURSIVE Listing(_)
Listing(S) ==
  IF S = {} THEN <<>>
  ELSE LET m == CHOOSE x \in S : \A y \in S \ {x} : IdLess(x, y)
       IN  <<m>> \o Listing(S \ {m})

\* ------------------------------------------------------------- tokens

NoToken == [uid |-> NoUser, kind |-> "none", id |-> 0]
\* The result of one user.getIdToken() call: whose token it is and which
\* call obtained it (a job's, a lookup's, or the sign-in callback's).
Token(u, kind, id) == [uid |-> u, kind |-> kind, id |-> id]


\* -------------------------------------------------------------- state

VARIABLES
  variant,                \* which of the three scripts the page runs
  showText,               \* whether the text of the display elements is followed
  currentUser,            \* auth.currentUser (NoUser: null)
  currentUserIdToken,     \* script.js: the module-level token variable
  store,                  \* users/{uid}/templates: the ids of each user's documents
  options,                \* templateSelect: option values after the placeholder
  selected,               \* templateSelect.value (<<>>: the placeholder)
  currentSheetId,         \* part_000: currentSheetIdElement.textContent
  statusMessage,          \* statusMessage.textContent
  templateStatusMessage,  \* templateStatusMessage.textContent
  disabled,               \* per form: the submit button's disabled attribute
  jobs,                   \* the running submit handlers, by slot
  authPending,            \* suspended auth-state callbacks, counted per user
  lookups,                \* part_000: the running showSheetIdForTemplate calls
  lastDone,               \* the submit handler that returned in the last step, if any
  lastLoad,               \* how the loadTemplates() of an auth callback ended in the last step, if one did
  heldAtSignOut           \* signed out: whether the select held entries at the sign-out

vars ==
  <<variant, showText, currentUser, currentUserIdToken, store, options, selected,
    currentSheetId, statusMessage, templateStatusMessage, disabled, jobs,
    authPending, lookups, lastDone, lastLoad, heldAtSignOut>>

\* A submit handler's frame.  pc names the await it is suspended at:
\*   "token"   await getIdToken()          "fetch"   await fetch(...)
\*   "text"    await res.text()            "getDocs" await loadTemplates()
\* uid is the `user` of the function suspended (getIdToken, loadTemplates);
\* tok, ok, name are the handler's token, res.ok and templateName.
\* The other fields record what the handler has done so far: empty, that it
\* read its file input and found no file; tokenReqs, posts and refreshes,
\* the getIdToken calls that reached the provider, the POSTs dispatched and
\* the getDocs reads started.
IdleJob ==
  [pc |-> "idle", surface |-> "none", uid |-> NoUser, tok |-> NoToken,
   ok |-> FALSE, name |-> <<>>, empty |-> FALSE, tokenReqs |-> 0,
   posts |-> 0, refreshes |-> 0, body |-> <<>>, msgs |-> 0]

\* What a handler that returns did, and by which exit path; ok is the
\* res.ok of the answer to its POST, if it had one.
Summary(job, path) ==
  [surface |-> job.surface, path |-> path, ok |-> job.ok, name |-> job.name,
   empty |-> job.empty, tokenReqs |-> job.tokenReqs, posts |-> job.posts,
   refreshes |-> job.refreshes, body |-> job.body, msgs |-> job.msgs]

\* lastDone after a step in which no handler returned.
NoDone == Summary(IdleJob, "none")

\* lastLoad after a step in which no auth callback ended.
NoLoad == "none"

\* A showSheetIdForTemplate call's frame: pc "token", "fetch" or "json".
IdleLookup ==
  [pc |-> "idle", name |-> <<>>, uid |-> NoUser, tok |-> NoToken, ok |-> FALSE]

IsPart == variant \in {"part_000", "part_001"}

Range(f) == {f[i] : i \in DOMAIN f}

RECURSIVE SumOver(_, _)
SumOver(f, S) ==
  IF S = {} THEN 0
  ELSE LET x == CHOOSE y \in S : TRUE IN f[x] + SumOver(f, S \ {x})

\* The slot a new handler invocation takes: the lowest free one.
HasFreeJob == \E j \in JobIds : jobs[j].pc = "idle"
FreeJob ==
  CHOOSE j \in JobIds :
    jobs[j].pc = "idle" /\ \A i \in JobIds : jobs[i].pc = "idle" => j <= i

HasFreeLookup == \E k \in LookupIds : lookups[k].pc = "idle"
FreeLookup ==
  CHOOSE k \in LookupIds :
    lookups[k].pc = "idle" /\ \A i \in LookupIds : lookups[i].pc = "idle" => k <= i

\* Template ids a user's collection may hold when the page is opened.
InitialNames == {<<"a">>}

\* The three display elements (the two messages and the sheet id) are only
\* written, never read, by the scripts.  With showText false their text is
\* left out of the state: what the rest of the script does is the same,
\* and fewer states differ.
Shown(text) == IF showText THEN text ELSE <<>>

\* The page after the script has run and the first auth-state callback
\* (user === null) has reset the select: running a script of V, for the
\* accounts in U.
InitOf(V, U, T) ==
  /\ variant \in V
  /\ showText \in T
  /\ currentUser = NoUser
  /\ currentUserIdToken = NoToken
  /\ store \in {st \in [Users -> SUBSET InitialNames] :
                   \A u \in Users \ U : st[u] = {}}
  /\ options = <<>>
  /\ selected = <<>>
  /\ currentSheetId = IF variant = "part_000" THEN Shown(NotSelectedText) ELSE <<>>
  /\ statusMessage = <<>>
  /\ templateStatusMessage = <<>>
  /\ disabled = [s \in Surfaces |-> FALSE]
  /\ jobs = [j \in JobIds |-> IdleJob]
  /\ authPending = [u \in Users |-> 0]
  /\ lookups = [k \in LookupIds |-> IdleLookup]
  /\ lastDone = NoDone
  /\ lastLoad = NoLoad
  /\ heldAtSignOut = FALSE

\* ------------------------------------------------------ DOM helpers

\* A reset that leaves the options in the select.
ResetOptionsKept == options

\* resetTemplateSelect(): the option list after the reset.
ResetOptions == <<>>
\* resetTemplateSelect(): part_000 also resets the displayed sheet id.
ResetSheetId ==
  IF variant = "part_000" THEN Shown(NotSelectedText) ELSE currentSheetId

\* submitButton?.setAttribute("disabled", "true"); script.js has none.
DisableControl(dis, s) ==
  IF IsPart THEN [dis EXCEPT ![s] = TRUE] ELSE dis

\* A finally block that leaves the button as it is.
RestoreControlKept(dis, s) ==
  dis

\* finally { submitButton?.removeAttribute("disabled") }; script.js has none.
RestoreControl(dis, s) ==
  IF IsPart THEN [dis EXCEPT ![s] = FALSE] ELSE dis

\* The handler of slot j returns by `path`: its frame is gone and the
\* finally block has run.
Finish(j, job, path) ==
  /\ jobs' = [jobs EXCEPT ![j] = IdleJob]
  /\ lastDone' = Summary(job, path)
  /\ lastLoad' = NoLoad
  /\ disabled' = RestoreControl(disabled, job.surface)

\* The handler of slot j is suspended again, with frame `job`.
Suspend(j, job) ==
  /\ jobs' = [jobs EXCEPT ![j] = job]
  /\ lastDone' = NoDone
  /\ lastLoad' = NoLoad

\* The frame of a handler that has set one more message reporting its
\* outcome (the progress message is not one).
Told(job) == [job EXCEPT !.msgs = @ + 1]

\* element.textContent = text, on the message element of form s.
SetMessage(s, text) ==
  /\ templateStatusMessage' =
       IF s = "template" THEN Shown(text) ELSE templateStatusMessage
  /\ statusMessage' = IF s = "upload" THEN Shown(text) ELSE statusMessage

\* catch (err): the text shown for an exception whose message is `msg`.
CatchText(s, msg) ==
  IF s = "template"
  THEN IF IsPart THEN TemplateFailedText(msg) ELSE TemplateFailedPlainText
  ELSE IF IsPart THEN CommErrorText(msg) ELSE CommErrorPlainText

\* if (!templateName || !file || !sheetUrl): the template form's check, on
\* the values as the handler read them (script.js and part_001 read no URL).
ValidTemplate(name, hasFile, sheetUrl) ==
  /\ name # <<>>
  /\ hasFile
  /\ variant = "part_000" => sheetUrl # <<>>

\* A check of the upload form that does not look at the files.
ValidUploadAnyFiles(name, sheetId, n) ==
  /\ name # <<>>
  /\ variant # "part_000" => sheetId # <<>>

\* if (!templateName || !spreadsheetId || files.length === 0); part_000
\* reads no sheet id.
ValidUpload(name, sheetId, n) ==
  /\ name # <<>>
  /\ n # 0
  /\ variant # "part_000" => sheetId # <<>>

\* .value.trim() in part_000 and part_001, .value in script.js
FieldValue(text) == IF IsPart THEN Trim(text) ELSE text


\* ------------------------------------------------------ authentication

\* signInWithPopup succeeds for user u; the auth-state callback runs to its
\* first await.  part_000/part_001: loadTemplates() resets the select and
\* awaits getDocs.  script.js: the callback awaits user.getIdToken().
\* The login button is hidden while a user is signed in.
SignIn(u) ==
  /\ currentUser = NoUser
  /\ SumOver(authPending, Users) < MaxAuth
  /\ currentUser' = u
  /\ authPending' = [authPending EXCEPT ![u] = @ + 1]
  /\ options' = IF IsPart THEN ResetOptions ELSE options
  /\ selected' = IF IsPart THEN <<>> ELSE selected
  /\ currentSheetId' = IF IsPart THEN ResetSheetId ELSE currentSheetId
  /\ lastDone' = NoDone
  /\ lastLoad' = NoLoad
  /\ heldAtSignOut' = FALSE
  /\ UNCHANGED <<variant, showText, currentUserIdToken, store, statusMessage,
                 templateStatusMessage, disabled, jobs, lookups>>

\* A click on the login button whose signInWithPopup is rejected (popup
\* closed, blocked, ...): nobody is signed in.  script.js shows the error
\* in the status message; part_000/part_001 only log it.
SignInFails ==
  /\ currentUser = NoUser
  /\ statusMessage' = IF IsPart THEN statusMessage
                      ELSE Shown(LoginErrorText(LoginErrorMessage))
  /\ lastDone' = NoDone
  /\ lastLoad' = NoLoad
  /\ UNCHANGED <<variant, showText, heldAtSignOut, currentUser, currentUserIdToken,
                 store, options, selected, currentSheetId, templateStatusMessage,
                 disabled, jobs, authPending, lookups>>

\* signOut(auth); the auth-state callback runs with user === null:
\* part_000/part_001 reset the select, script.js forgets its token.
SignOut ==
  /\ currentUser # NoUser
  /\ currentUser' = NoUser
  /\ options' = IF IsPart THEN ResetOptions ELSE options
  /\ selected' = IF IsPart THEN <<>> ELSE selected
  /\ currentSheetId' = IF IsPart THEN ResetSheetId ELSE currentSheetId
  /\ currentUserIdToken' = IF IsPart THEN currentUserIdToken ELSE NoToken
  /\ lastDone' = NoDone
  /\ lastLoad' = NoLoad
  /\ heldAtSignOut' = (options # <<>>)
  /\ UNCHANGED <<variant, showText, store, statusMessage, templateStatusMessage,
                 disabled, jobs, authPending, lookups>>

\* part_000/part_001: the getDocs of a callback's loadTemplates() settles.
\* Resolved: one option per document is appended.  Rejected: the catch of
\* loadTemplates sets the status message.
AuthGetDocsSettle(u) ==
  /\ IsPart
  /\ authPending[u] > 0
  /\ authPending' = [authPending EXCEPT ![u] = @ - 1]
  /\ \/ /\ options' = options \o Listing(store[u])
        /\ lastLoad' = "listed"
        /\ UNCHANGED statusMessage
     \/ /\ statusMessage' = Shown(LoadFailedText)
        /\ lastLoad' = "failed"
        /\ UNCHANGED options
  /\ lastDone' = NoDone
  /\ UNCHANGED <<variant, showText, heldAtSignOut, currentUser, currentUserIdToken, store, selected,
                 currentSheetId, templateStatusMessage, disabled, jobs,
                 lookups>>

\* script.js: the user.getIdToken() of the callback settles.  Resolved: the
\* token is stored, then `collection` (never imported) raises a
\* ReferenceError and the callback ends without touching the select.
AuthTokenSettle(u) ==
  /\ variant = "script"
  /\ authPending[u] > 0
  /\ authPending' = [authPending EXCEPT ![u] = @ - 1]
  /\ \/ currentUserIdToken' = Token(u, "signin", 0)
     \/ UNCHANGED currentUserIdToken
  /\ lastDone' = NoDone
  /\ lastLoad' = NoLoad
  /\ UNCHANGED <<variant, showText, heldAtSignOut, currentUser, store, options, selected,
                 currentSheetId, statusMessage, templateStatusMessage,
                 disabled, jobs, lookups>>

\* ------------------------------------------------------ submit handlers

\* The message of a failed validation.
MissingText(s) ==
  IF s = "template"
  THEN IF variant = "part_000" THEN TemplateMissingText000 ELSE TemplateMissingText
  ELSE IF variant = "part_000" THEN UploadMissingText000 ELSE UploadMissingText

\* The form fields a handler reads.  A text field holds whatever the user
\* typed last; the template name of an upload is the select's value.
NameField(s) == IF s = "template" THEN TextInputs ELSE {selected}
\* templateFileInput.files[0] is one file or none; fileInput.files is a list.
FilesField(s) == IF s = "template" THEN {0, 1} ELSE FileCounts
\* sheetUrlInput (part_000, template form), sheetIdInput (part_001 and
\* script.js, upload form); the other forms read no such field.
SheetField(s) ==
  IF (s = "template") = (variant = "part_000") THEN TextInputs ELSE {<<>>}

Valid(s, name, sheet, n) ==
  IF s = "template"
  THEN ValidTemplate(FieldValue(name), n > 0, FieldValue(sheet))
  ELSE ValidUpload(name, FieldValue(sheet), n)

\* The running message: "creating..." or "uploading...".
ProgressText(s, name, n) ==
  IF s = "template" THEN CreatingText(name) ELSE UploadingText(n)

\* The token a handler attaches to its POST.  part_000/part_001: the one
\* its own getIdToken() call returned; script.js: currentUserIdToken.
RequestToken(own) == IF IsPart THEN own ELSE currentUserIdToken

\* The segment of a submit handler from reading the form to the fetch:
\* validation, then disabling the button, the progress message and the
\* POST.  Failing validation returns (through finally, where there is one).
ReadAndDispatch(j, job, own) ==
  \E name \in NameField(job.surface), sheet \in SheetField(job.surface),
     n \in FilesField(job.surface) :
    LET s == job.surface
        tn == IF s = "template" THEN FieldValue(name) ELSE name
        read == [job EXCEPT !.empty = (n = 0)]
    IN  IF ~Valid(s, name, sheet, n)
        THEN /\ SetMessage(s, MissingText(s))
             /\ Finish(j, Told(read), "invalid")
        ELSE /\ SetMessage(s, ProgressText(s, tn, n))
             /\ disabled' = DisableControl(disabled, s)
             /\ Suspend(j, [read EXCEPT !.pc = "fetch", !.tok = RequestToken(own),
                                        !.name = tn, !.posts = @ + 1])

\* A submit event on form s.  A disabled submit button submits nothing.
\* part_000/part_001: getIdToken() throws at once without a user, and
\* otherwise the handler awaits user.getIdToken().
\* script.js: the handler checks currentUserIdToken and goes on to the POST.
Submit(s) ==
  /\ HasFreeJob
  /\ ~disabled[s]
  /\ LET j == FreeJob
         job == [IdleJob EXCEPT !.surface = s]
     IN  IF IsPart
         THEN IF currentUser = NoUser
              THEN /\ SetMessage(s, CatchText(s, NotLoggedInMessage))
                   /\ Finish(j, Told(job), "unauthenticated")
              ELSE /\ Suspend(j, [job EXCEPT !.pc = "token", !.uid = currentUser,
                                             !.tokenReqs = @ + 1])
                   /\ UNCHANGED <<statusMessage, templateStatusMessage, disabled>>
         ELSE IF currentUserIdToken = NoToken
              THEN /\ SetMessage(s, PleaseLogInText)
                   /\ Finish(j, Told(job), "unauthenticated")
              ELSE ReadAndDispatch(j, job, NoToken)
  /\ UNCHANGED <<variant, showText, heldAtSignOut, currentUser, currentUserIdToken, store, options,
                 selected, currentSheetId, authPending, lookups>>

\* part_000/part_001: the user.getIdToken() of handler j settles.
TokenSettle(j) ==
  /\ IsPart
  /\ jobs[j].pc = "token"
  /\ \/ ReadAndDispatch(j, jobs[j], Token(jobs[j].uid, "job", j))
     \/ /\ SetMessage(jobs[j].surface, CatchText(jobs[j].surface, TokenErrorMessage))
        /\ Finish(j, Told(jobs[j]), "token_error")
  /\ UNCHANGED <<variant, showText, heldAtSignOut, currentUser, currentUserIdToken, store, options,
                 selected, currentSheetId, authPending, lookups>>


\* The remote function behind analyzeFunctionUrl: a 2xx answer means the
\* template document was written under the uid of the bearer token.
ServerStore(job, ok) ==
  IF ok /\ job.surface = "template"
  THEN [store EXCEPT ![job.tok.uid] = @ \cup {job.name}]
  ELSE store

\* A handler that sends its POST again after a network exception.
FetchSettleRetry(j) ==
  /\ jobs[j].pc = "fetch"
  /\ \/ \E ok \in BOOLEAN :
          /\ Suspend(j, [jobs[j] EXCEPT !.pc = "text", !.ok = ok])
          /\ store' = ServerStore(jobs[j], ok)
          /\ UNCHANGED <<statusMessage, templateStatusMessage, disabled>>
     \/ /\ jobs[j].posts < 2
        /\ Suspend(j, [jobs[j] EXCEPT !.posts = @ + 1])
        /\ UNCHANGED <<store, statusMessage, templateStatusMessage, disabled>>
  /\ UNCHANGED <<variant, showText, heldAtSignOut, currentUser, currentUserIdToken, options, selected,
                 currentSheetId, authPending, lookups>>

\* The fetch of handler j settles: a response (2xx or not), or a network
\* exception, which the catch reports.
FetchSettle(j) ==
  /\ jobs[j].pc = "fetch"
  /\ \/ \E ok \in BOOLEAN :
          /\ Suspend(j, [jobs[j] EXCEPT !.pc = "text", !.ok = ok])
          /\ store' = ServerStore(jobs[j], ok)
          /\ UNCHANGED <<statusMessage, templateStatusMessage, disabled>>
     \/ /\ SetMessage(jobs[j].surface, CatchText(jobs[j].surface, NetworkErrorMessage))
        /\ Finish(j, Told(jobs[j]), "network_error")
        /\ UNCHANGED store
  /\ UNCHANGED <<variant, showText, heldAtSignOut, currentUser, currentUserIdToken, options, selected,
                 currentSheetId, authPending, lookups>>

\* Whether the success path of form s reloads the templates:
\* part_000 both forms, part_001 the template form.
Reloads(s) == s = "template" \/ variant = "part_000"

\* The text shown for a 2xx body.
SuccessText(s, body) == IF s = "template" THEN body ELSE ServerReplyText(body)

\* A handler whose catch also resets the select.
TextSettlePartResets(j) ==
  LET job == jobs[j]
      s == job.surface
  IN
  /\ IsPart
  /\ job.pc = "text"
  /\ \/ /\ SetMessage(s, CatchText(s, NetworkErrorMessage))
        /\ Finish(j, Told(job), "body_error")
        /\ UNCHANGED <<options, selected, currentSheetId>>
     \/ \E body \in Bodies :
          IF ~job.ok
          THEN /\ SetMessage(s, CatchText(s, body))
               /\ Finish(j, Told([job EXCEPT !.body = Shown(body)]), "rejected")
               /\ options' = ResetOptions
               /\ selected' = <<>>
               /\ currentSheetId' = ResetSheetId
          ELSE /\ SetMessage(s, SuccessText(s, body))
               /\ IF Reloads(s) /\ currentUser # NoUser
                  THEN /\ options' = ResetOptions
                       /\ selected' = <<>>
                       /\ currentSheetId' = ResetSheetId
                       /\ Suspend(j, Told([job EXCEPT !.pc = "getDocs",
                                                      !.uid = currentUser,
                                                      !.refreshes = @ + 1,
                                                      !.body = Shown(body)]))
                       /\ UNCHANGED disabled
                  ELSE /\ options' = IF s = "upload" /\ variant = "part_000"
                                     THEN ResetOptions ELSE options
                       /\ selected' = IF s = "upload" THEN <<>> ELSE selected
                       /\ currentSheetId' = IF s = "upload" THEN ResetSheetId
                                            ELSE currentSheetId
                       /\ Finish(j, Told([job EXCEPT !.body = Shown(body)]), "ok")
  /\ UNCHANGED <<variant, showText, heldAtSignOut, currentUser, currentUserIdToken, store,
                 authPending, lookups>>

\* part_000/part_001: res.text() of handler j settles.
\* !res.ok throws the body to the catch.  On success the message is set,
\* the form is reset (part_000's upload handler also resets the select) and
\* loadTemplates() runs to its getDocs; it returns at once without a user.
TextSettlePart(j) ==
  LET job == jobs[j]
      s == job.surface
  IN
  /\ IsPart
  /\ job.pc = "text"
  /\ \/ /\ SetMessage(s, CatchText(s, NetworkErrorMessage))
        /\ Finish(j, Told(job), "body_error")
        /\ UNCHANGED <<options, selected, currentSheetId>>
     \/ \E body \in Bodies :
          IF ~job.ok
          THEN /\ SetMessage(s, CatchText(s, body))
               /\ Finish(j, Told([job EXCEPT !.body = Shown(body)]), "rejected")
               /\ UNCHANGED <<options, selected, currentSheetId>>
          ELSE /\ SetMessage(s, SuccessText(s, body))
               /\ IF Reloads(s) /\ currentUser # NoUser
                  THEN /\ options' = ResetOptions
                       /\ selected' = <<>>
                       /\ currentSheetId' = ResetSheetId
                       /\ Suspend(j, Told([job EXCEPT !.pc = "getDocs",
                                                      !.uid = currentUser,
                                                      !.refreshes = @ + 1,
                                                      !.body = Shown(body)]))
                       /\ UNCHANGED disabled
                  ELSE /\ options' = IF s = "upload" /\ variant = "part_000"
                                     THEN ResetOptions ELSE options
                       /\ selected' = IF s = "upload" THEN <<>> ELSE selected
                       /\ currentSheetId' = IF s = "upload" THEN ResetSheetId
                                            ELSE currentSheetId
                       /\ Finish(j, Told([job EXCEPT !.body = Shown(body)]), "ok")
  /\ UNCHANGED <<variant, showText, heldAtSignOut, currentUser, currentUserIdToken, store,
                 authPending, lookups>>

\* script.js: response.text() of handler j settles.  The body is shown
\* whatever the status.  On a 2xx the template handler calls
\* onAuthStateChanged(auth, auth.currentUser): a user object (or null) is no
\* observer, so nothing is reloaded; the SDK either throws, which the catch
\* reports, or returns.
TextSettleScript(j) ==
  LET job == jobs[j]
      s == job.surface
  IN
  /\ variant = "script"
  /\ job.pc = "text"
  /\ \/ /\ SetMessage(s, CatchText(s, NetworkErrorMessage))
        /\ Finish(j, Told(job), "body_error")
     \/ \E body \in Bodies :
          /\ SetMessage(s, SuccessText(s, body))
          /\ Finish(j, Told([job EXCEPT !.body = Shown(body)]),
                    IF job.ok THEN "ok" ELSE "rejected")
     \/ \E body \in Bodies :
          /\ s = "template"
          /\ job.ok
          /\ SetMessage(s, CatchText(s, NetworkErrorMessage))
          /\ Finish(j, Told(Told([job EXCEPT !.body = Shown(body)])),
                    "ok_hook_threw")
  /\ UNCHANGED <<variant, showText, heldAtSignOut, currentUser, currentUserIdToken, store, options,
                 selected, currentSheetId, authPending, lookups>>

\* part_000/part_001: the getDocs of the loadTemplates() that handler j
\* awaits settles; loadTemplates catches a rejection itself.
JobGetDocsSettle(j) ==
  /\ jobs[j].pc = "getDocs"
  /\ \/ /\ options' = options \o Listing(store[jobs[j].uid])
        /\ UNCHANGED statusMessage
        /\ Finish(j, jobs[j], "ok")
     \/ /\ statusMessage' = Shown(LoadFailedText)
        /\ UNCHANGED options
        /\ Finish(j, Told(jobs[j]), "ok_reload_failed")
  /\ UNCHANGED <<variant, showText, heldAtSignOut, currentUser, currentUserIdToken, store, selected,
                 currentSheetId, templateStatusMessage, authPending, lookups>>

\* ------------------------------------------------- template selection

\* The user picks entry v of the select (a change event).  part_000: the
\* change handler calls showSheetIdForTemplate(v), which shows "not
\* selected" without a user or a name and otherwise awaits getIdToken().
SelectTemplate(v) ==
  /\ v # selected
  /\ selected' = v
  /\ IF variant # "part_000"
     THEN UNCHANGED <<currentSheetId, lookups>>
     ELSE IF currentUser = NoUser \/ v = <<>>
     THEN /\ currentSheetId' = Shown(NotSelectedText)
          /\ UNCHANGED lookups
     ELSE /\ HasFreeLookup
          /\ lookups' = [lookups EXCEPT ![FreeLookup] =
               [IdleLookup EXCEPT !.pc = "token", !.name = v, !.uid = currentUser]]
          /\ UNCHANGED currentSheetId
  /\ lastDone' = NoDone
  /\ lastLoad' = NoLoad
  /\ UNCHANGED <<variant, showText, heldAtSignOut, currentUser, currentUserIdToken, store, options,
                 statusMessage, templateStatusMessage, disabled, jobs,
                 authPending>>

\* if (res.ok && data.spreadsheetId): the text shown for an answer whose
\* status is 2xx or not and whose spreadsheetId is `id` (<<>>: null, absent).
SheetIdText(ok, id) == IF ok /\ id # <<>> THEN id ELSE CouldNotGetText

\* showSheetIdForTemplate call k ends, showing `text`.
LookupEnds(k, text) ==
  /\ currentSheetId' = Shown(text)
  /\ lookups' = [lookups EXCEPT ![k] = IdleLookup]

\* The getIdToken() of lookup k settles; a rejection goes to the catch.
LookupTokenSettle(k) ==
  /\ lookups[k].pc = "token"
  /\ \/ /\ lookups' = [lookups EXCEPT ![k] =
             [@ EXCEPT !.pc = "fetch",
                        !.tok = Token(lookups[k].uid, "lookup", k)]]
        /\ UNCHANGED currentSheetId
     \/ LookupEnds(k, ErrorOccurredText)
  /\ lastDone' = NoDone
  /\ lastLoad' = NoLoad
  /\ UNCHANGED <<variant, showText, heldAtSignOut, currentUser, currentUserIdToken, store, options,
                 selected, statusMessage, templateStatusMessage, disabled,
                 jobs, authPending>>

\* The GET of lookup k settles: a response, or a network exception.
LookupFetchSettle(k) ==
  /\ lookups[k].pc = "fetch"
  /\ \/ \E ok \in BOOLEAN :
          /\ lookups' = [lookups EXCEPT ![k] = [@ EXCEPT !.pc = "json", !.ok = ok]]
          /\ UNCHANGED currentSheetId
     \/ LookupEnds(k, ErrorOccurredText)
  /\ lastDone' = NoDone
  /\ lastLoad' = NoLoad
  /\ UNCHANGED <<variant, showText, heldAtSignOut, currentUser, currentUserIdToken, store, options,
                 selected, statusMessage, templateStatusMessage, disabled,
                 jobs, authPending>>

\* res.json() of lookup k settles: an object whose spreadsheetId is a sheet
\* id or absent, or a body that is no JSON object (the catch).
LookupJsonSettle(k) ==
  /\ lookups[k].pc = "json"
  /\ \/ \E id \in SheetIds :
          LookupEnds(k, SheetIdText(lookups[k].ok, id))
     \/ LookupEnds(k, ErrorOccurredText)
  /\ lastDone' = NoDone
  /\ lastLoad' = NoLoad
  /\ UNCHANGED <<variant, showText, heldAtSignOut, currentUser, currentUserIdToken, store, options,
                 selected, statusMessage, templateStatusMessage, disabled,
                 jobs, authPending>>

\* ------------------------------------------------------ specification

\* The reloads of the templates that await their getDocs.
RefreshesPending ==
  Cardinality({j \in JobIds : jobs[j].pc = "getDocs"})
    + (IF IsPart THEN SumOver(authPending, Users) ELSE 0)

\* Signing in and out, for the accounts in U.
AuthSteps(U) ==
  \/ \E u \in U : SignIn(u)
  \/ SignOut
  \/ SignInFails

\* The submit events of the forms in S, and the answers to their POSTs.
FormSteps(S) ==
  \/ \E s \in S : Submit(s)
  \/ \E j \in JobIds : FetchSettle(j)

\* The continuations only part_000 and part_001 have.
PartSteps(U) ==
  \/ \E u \in U : AuthGetDocsSettle(u)
  \/ \E j \in JobIds : TokenSettle(j)
  \/ \E j \in JobIds : TextSettlePart(j)
  \/ \E j \in JobIds : JobGetDocsSettle(j)

\* The continuations only script.js has.
ScriptSteps(U) ==
  \/ \E u \in U : AuthTokenSettle(u)
  \/ \E j \in JobIds : TextSettleScript(j)

\* The lookups of part_000, whose only effect is the sheet id displayed.
LookupSteps ==
  \/ \E k \in LookupIds : LookupTokenSettle(k)
  \/ \E k \in LookupIds : LookupFetchSettle(k)
  \/ \E k \in LookupIds : LookupJsonSettle(k)

\* The account that uses the page where one is enough.
OneUser == {"u1"}

\* One account using a page of any of the three scripts, both forms and
\* the select; the text displayed is not followed.
Next ==
  \/ AuthSteps(OneUser)
  \/ FormSteps(Surfaces)
  \/ PartSteps(OneUser)
  \/ ScriptSteps(OneUser)
  \/ \E v \in Range(options) \cup {<<>>} : SelectTemplate(v)
  \/ LookupSteps

Init == InitOf(Variants, OneUser, {FALSE})

Spec == Init /\ [][Next]_vars

\* The same for part_000 and part_001 alone.
NextPart ==
  \/ AuthSteps(OneUser)
  \/ FormSteps(Surfaces)
  \/ PartSteps(OneUser)
  \/ \E v \in Range(options) \cup {<<>>} : SelectTemplate(v)
  \/ LookupSteps

SpecPart == InitOf({"part_000", "part_001"}, OneUser, {FALSE}) /\ [][NextPart]_vars

\* Two accounts taking turns at a page of part_000 or part_001, with the
\* template form: a reload begun for one account can still be awaiting its
\* listing when the other account has signed in.
NextShared ==
  \/ AuthSteps(Users)
  \/ FormSteps({"template"})
  \/ PartSteps(Users)

SpecShared == InitOf({"part_000", "part_001"}, Users, {FALSE}) /\ [][NextShared]_vars

\* Every awaited call settles: the continuation of each suspended handler
\* is eventually run.
JobsSettle ==
  \A j \in JobIds :
    /\ WF_vars(TokenSettle(j))
    /\ WF_vars(FetchSettle(j))
    /\ WF_vars(TextSettlePart(j))
    /\ WF_vars(TextSettleScript(j))
    /\ WF_vars(JobGetDocsSettle(j))

SpecFair == Spec /\ JobsSettle

\* part_000 with the sheet id display followed: signing in and out, the
\* select and the lookups it starts; no form is submitted.
NextSheet ==
  \/ AuthSteps(OneUser)
  \/ \E u \in OneUser : AuthGetDocsSettle(u)
  \/ \E v \in Range(options) \cup {<<>>} : SelectTemplate(v)
  \/ LookupSteps

SpecSheet == InitOf({"part_000"}, OneUser, {TRUE}) /\ [][NextSheet]_vars

\* part_000 with every text displayed followed: the upload form, the select
\* and its lookups.
NextUpload000 ==
  \/ AuthSteps(OneUser)
  \/ FormSteps({"upload"})
  \/ PartSteps(OneUser)
  \/ \E v \in Range(options) \cup {<<>>} : SelectTemplate(v)
  \/ LookupSteps

SpecUpload000 == InitOf({"part_000"}, OneUser, {TRUE}) /\ [][NextUpload000]_vars

\* part_000 and part_001 when reloads follow one another: no reload is
\* started while another one awaits its getDocs.
NextSeq == NextPart /\ RefreshesPending' <= 1

SpecSeq == InitOf({"part_000", "part_001"}, OneUser, {FALSE}) /\ [][NextSeq]_vars

\* part_001 and script.js with every text displayed followed.
NextText ==
  \/ AuthSteps(OneUser)
  \/ FormSteps(Surfaces)
  \/ PartSteps(OneUser)
  \/ ScriptSteps(OneUser)
  \/ \E v \in Range(options) \cup {<<>>} : SelectTemplate(v)

SpecText == InitOf({"part_001", "script"}, OneUser, {TRUE}) /\ [][NextText]_vars

-----------------------------------------------------------------------------
\* Properties

\* The request of the handler in slot j is sent and not yet fully answered.
InFlight(j) == jobs[j].pc \in {"fetch", "text"}

\* C1: two handlers of the same form never have their POSTs in flight
\* together; a submit that arrives while another handler of the form has
\* started, even if only as far as getIdToken, is never sent concurrently.
C1_OneRequestPerForm ==
  \A j, k \in JobIds :
    (j # k /\ InFlight(j) /\ InFlight(k)) => jobs[j].surface # jobs[k].surface

\* C2: an upload of zero files sends nothing and fails in validation, in
\* the step that reads the form, whatever the other fields hold.
C2_NoFilesNoRequest ==
  /\ \A j \in JobIds : ~jobs[j].empty
  /\ lastDone.empty => (lastDone.path = "invalid" /\ lastDone.posts = 0)

\* C2 happens: a template is selected and the upload with no file has failed.
C2_Witness ==
  /\ lastDone.surface = "upload"
  /\ lastDone.empty
  /\ lastDone.path = "invalid"
  /\ selected # <<>>

\* C3: a handler that fails validation has asked for no token and sent
\* nothing.
C3_InvalidAsksNoToken ==
  lastDone.path = "invalid" => (lastDone.tokenReqs = 0 /\ lastDone.posts = 0)

\* A submit handler starts in this step: it takes a slot, or returns at once.
Invoked ==
  \/ \E j \in JobIds : jobs[j].pc = "idle" /\ jobs'[j].pc # "idle"
  \/ jobs' = jobs /\ lastDone' # NoDone

\* C4: a submit made while nobody is signed in returns as unauthenticated,
\* having sent nothing, and changes nothing but the message.
C4_SignedOutSubmitSendsNothing ==
  [][(currentUser = NoUser /\ Invoked) =>
       /\ lastDone'.path = "unauthenticated"
       /\ lastDone'.posts = 0
       /\ UNCHANGED <<jobs, store, options, selected, disabled,
                      currentSheetId, currentUserIdToken>>]_vars

\* C5: every request carries a token obtained by the handler that sends it:
\* a POST the token of its own slot, a lookup the token of its own lookup,
\* never the token obtained at sign-in.
C5_OwnTokenPerRequest ==
  /\ \A j \in JobIds :
       jobs[j].posts > 0 => jobs[j].tok = Token(jobs[j].tok.uid, "job", j)
  /\ \A k \in LookupIds :
       lookups[k].pc \in {"fetch", "json"} =>
         lookups[k].tok = Token(lookups[k].tok.uid, "lookup", k)

\* C6: while a POST is in flight the submit button of its form is disabled.
C6_DisabledWhileInFlight ==
  \A j \in JobIds : InFlight(j) => disabled[jobs[j].surface]

\* C7: when a handler has returned, by whatever path, the button of its form
\* is enabled; and if every awaited call settles, every handler returns and
\* a disabled button is enabled again.
C7_ControlRestored ==
  /\ [](lastDone # NoDone => ~disabled[lastDone.surface])
  /\ \A j \in JobIds : (jobs[j].pc # "idle") ~> (jobs[j].pc = "idle")
  /\ \A s \in Surfaces : disabled[s] ~> ~disabled[s]

\* C7 happens: a handler that had disabled its button has returned after
\* the reload of the templates failed.
C7_Witness ==
  /\ IsPart
  /\ lastDone.path = "ok_reload_failed"
  /\ lastDone.posts = 1
  /\ ~disabled[lastDone.surface]

\* C8: after a sign-out that found entries in the select, the select is
\* empty for as long as nobody signs in.
C8_EmptyWhileSignedOut ==
  (currentUser = NoUser /\ heldAtSignOut) => options = <<>>

\* The POST of the handler that returned was answered with a 2xx status,
\* whether or not its body could then be read.
GotOk(done) == done.posts > 0 /\ done.ok

\* The handler that returned by `path` had read the body of a 2xx answer
\* and gone past the check of res.ok.
PassedOkCheck(path) == path \in {"ok", "ok_reload_failed", "ok_hook_threw"}

\* C9: a template handler answered with 2xx reloads the templates exactly
\* once, not before the answer, and the select holds the new name when the
\* handler returns.
C9_ReloadAfterCreate ==
  /\ \A j \in JobIds : jobs[j].refreshes > 0 => jobs[j].pc = "getDocs"
  /\ (lastDone.surface = "template" /\ GotOk(lastDone)) =>
       /\ lastDone.refreshes = 1
       /\ \E i \in DOMAIN options : options[i] = lastDone.name

\* A reload of the templates starts in this step.
ReloadStarts ==
  \/ \E j \in JobIds : jobs[j].pc # "getDocs" /\ jobs'[j].pc = "getDocs"
  \/ \E u \in Users : authPending'[u] > authPending[u] /\ IsPart

\* C10: a reload replaces the content of the select in one step: starting
\* it leaves the select as it was, and the handler whose reload has arrived
\* leaves the select holding the listing of the store.
C10_ReloadReplacesAtOnce ==
  [][/\ ReloadStarts => options' = options
     /\ \A j \in JobIds :
          (jobs[j].pc = "getDocs" /\ lastDone'.path = "ok"
             /\ jobs'[j].pc = "idle") =>
            options' = Listing(store[jobs[j].uid])]_vars

\* The reload awaited by handler j delivers its listing in this step.
JobListingArrives(j) ==
  jobs[j].pc = "getDocs" /\ jobs'[j].pc = "idle" /\ lastDone'.path = "ok"

\* The reload of a sign-in callback of u delivers a listing in this step.
AuthListingArrives(u) ==
  IsPart /\ authPending'[u] < authPending[u] /\ lastLoad' = "listed"

\* C11: when the last of several overlapping reloads delivers its listing,
\* so that none is pending any more, the select holds exactly that listing:
\* no name twice, nothing left from the other reload.
C11_LastRefreshWins ==
  [][RefreshesPending' = 0 =>
       /\ \A j \in JobIds :
            JobListingArrives(j) => options' = Listing(store[jobs[j].uid])
       /\ \A u \in Users :
            AuthListingArrives(u) => options' = Listing(store[u])]_vars

\* Lookup k ends in this step without a 2xx answer: the GET failed at
\* network level, or the status was not 2xx (whatever the body).
LookupFails(k) ==
  /\ lookups'[k].pc = "idle"
  /\ \/ lookups[k].pc = "fetch"
     \/ lookups[k].pc = "json" /\ ~lookups[k].ok

\* C12: what is displayed after a lookup that got a 404, any other non-2xx
\* or no answer differs from what a 2xx answer with spreadsheetId null
\* displays.
C12_LookupFailureDistinct ==
  [][\A k \in LookupIds :
       LookupFails(k) => currentSheetId' # SheetIdText(TRUE, <<>>)]_vars

\* C13: when an upload handler that got a 2xx with body B has returned, the
\* status message is the wrapper text followed by B and the upload button
\* is enabled, whatever became of the reload the handler ran.
C13_UploadReplyShown ==
  (lastDone.surface = "upload" /\ PassedOkCheck(lastDone.path)) =>
    /\ statusMessage = ServerReplyText(lastDone.body)
    /\ ~disabled["upload"]

\* The text in the message element of form s.
MessageOf(s) == IF s = "template" THEN templateStatusMessage ELSE statusMessage

\* Text `part` occurs in text `msg`.
Contains(msg, part) ==
  \E i \in 0..(Len(msg) - Len(part)) : SubSeq(msg, i + 1, i + Len(part)) = part

\* C14: a handler whose POST got a non-2xx answer ends with a message that
\* contains the response body and is not the message of a success with
\* that body; a handler whose POST failed with a network exception ends
\* with a message that contains the exception's message.
C14_FailureDetailShown ==
  /\ lastDone.path = "rejected" =>
       /\ Contains(MessageOf(lastDone.surface), lastDone.body)
       /\ MessageOf(lastDone.surface) # SuccessText(lastDone.surface, lastDone.body)
  /\ lastDone.path = "network_error" =>
       Contains(MessageOf(lastDone.surface), NetworkErrorMessage)

\* The getDocs of the reload awaited by handler j is rejected in this step.
JobReloadFails(j) ==
  jobs[j].pc = "getDocs" /\ jobs'[j].pc = "idle"
    /\ lastDone'.path = "ok_reload_failed"

\* The getDocs of the reload of a sign-in callback of u is rejected in this
\* step: the callback ends and the failure is reported.
AuthReloadFails(u) ==
  IsPart /\ authPending'[u] < authPending[u] /\ lastLoad' = "failed"

\* C15: when the getDocs of a reload is rejected, the handler that awaits
\* the reload still returns as after a success of its POST, the select is
\* empty, and the status message reports the failure.
C15_ReloadFailureContained ==
  [][/\ \A j \in JobIds :
          JobReloadFails(j) =>
            /\ lastDone'.posts = 1
            /\ options' = <<>>
            /\ statusMessage' = LoadFailedText
     /\ \A u \in Users : AuthReloadFails(u) => options' = <<>>]_vars

\* C16: reloads run one after another are idempotent: each one that
\* delivers its listing leaves in the select exactly the names the store
\* holds for the user, each once, whatever an earlier reload had left; so
\* a second reload with the store unchanged leaves what the first left.
C16_RefreshIdempotent ==
  [][/\ \A j \in JobIds :
          JobListingArrives(j) =>
            /\ Range(options') = store[jobs[j].uid]
            /\ Len(options') = Cardinality(store[jobs[j].uid])
     /\ \A u \in Users :
          AuthListingArrives(u) =>
            /\ Range(options') = store[u]
            /\ Len(options') = Cardinality(store[u])]_vars

\* C16 happens: the reload of an upload handler has delivered its listing
\* after an earlier reload had delivered the template the upload named,
\* and the select holds that template once.
C16_Witness ==
  /\ lastDone.surface = "upload"
  /\ lastDone.path = "ok"
  /\ lastDone.refreshes = 1
  /\ lastDone.name # <<>>
  /\ options = <<lastDone.name>>
  /\ store[currentUser] = {lastDone.name}

\* A request is sent in this step: a POST, a lookup GET, or a getDocs read.
RequestSent ==
  \/ \E j \in JobIds : jobs'[j].posts > jobs[j].posts
  \/ \E k \in LookupIds : lookups[k].pc # "fetch" /\ lookups'[k].pc = "fetch"
  \/ ReloadStarts

\* C17: no request is sent while nobody is signed in; a handler that was
\* suspended when the user signed out does not go on to send its request.
C17_NoRequestSignedOut ==
  [][RequestSent => currentUser' # NoUser]_vars

\* C18: within a handler the steps follow one another: while the token is
\* awaited nothing is sent; a POST is sent only after the handler's own
\* token request has resolved; a reload is started only after the body of
\* a 2xx answer has arrived.
C18_StepsInOrder ==
  /\ \A j \in JobIds :
       /\ jobs[j].pc = "token" =>
            (jobs[j].posts = 0 /\ jobs[j].refreshes = 0 /\ jobs[j].tok = NoToken)
       /\ jobs[j].posts > 0 =>
            (jobs[j].tok # NoToken /\ jobs[j].tokenReqs = 1)
       /\ jobs[j].refreshes > 0 =>
            (jobs[j].pc = "getDocs" /\ jobs[j].posts = 1 /\ jobs[j].ok)
  /\ lastDone.refreshes > 0 => (lastDone.posts = 1 /\ PassedOkCheck(lastDone.path))
  /\ lastDone.posts > 0 => lastDone.tokenReqs = 1

\* The exit paths of a handler that has sent its POST.
SentPaths ==
  {"ok", "rejected", "network_error", "body_error", "ok_reload_failed",
   "ok_hook_threw"}

\* C19: a handler sends at most one POST, and exactly one once it is past
\* validation and token acquisition; after a non-2xx answer or a network
\* exception it sends nothing more; the POST carries a bearer token.
C19_OnePostPerJob ==
  /\ \A j \in JobIds :
       /\ jobs[j].posts <= 1
       /\ jobs[j].pc \in {"fetch", "text", "getDocs"} <=> jobs[j].posts = 1
       /\ jobs[j].posts = 1 => jobs[j].tok.uid # NoUser
  /\ lastDone.posts <= 1
  /\ lastDone.path \in SentPaths <=> lastDone.posts = 1
  /\ lastDone.path \in {"rejected", "network_error"} => lastDone.refreshes = 0

\* C19 happens: a handler has returned after a network exception, having
\* sent its one POST.
C19_Witness ==
  /\ lastDone.path = "network_error"
  /\ lastDone.posts = 1

\* C20: a handler that returns has set exactly one message reporting its
\* outcome: not none, and not a second one after the first.
C20_OneTerminalMessage ==
  lastDone # NoDone => lastDone.msgs = 1

\* A handler of form s runs in this step: the frame of one of its
\* invocations changes, or an invocation returns at once.
HandlerRuns(s) ==
  \/ \E j \in JobIds :
       /\ jobs'[j] # jobs[j]
       /\ jobs[j].surface = s \/ jobs'[j].surface = s
  \/ jobs' = jobs /\ lastDone'.surface = s

\* An upload handler is suspended between its submit and its return.
UploadInFlight == \E k \in JobIds : jobs[k].surface = "upload"

\* C21: while an upload handler is in flight, no step of a template
\* handler, its reload included, changes the status message of the upload
\* form or the template selected in it.
C21_TemplateJobLeavesUpload ==
  [][(UploadInFlight /\ HandlerRuns("template")) =>
       (statusMessage' = statusMessage /\ selected' = selected)]_vars

\* C22: when some account is signed in and no reload awaits its listing,
\* the select holds only names of templates of that account.
C22_CacheOfCurrentUserOnly ==
  (currentUser # NoUser /\ RefreshesPending = 0) =>
    Range(options) \subseteq store[currentUser]

\* The ways a handler returns after a failure: fields missing, nobody
\* signed in, no token, no response, no body, a response that is not 2xx.
FailedPaths ==
  {"invalid", "unauthenticated", "token_error", "network_error",
   "body_error", "rejected"}

\* C23: a template handler that has no 2xx response changes the select in
\* none of its steps, and one that returns by a failure has begun no reload
\* and leaves the select as it is.
C23_FailedCreateLeavesCache ==
  [][/\ \A j \in JobIds :
          (/\ jobs'[j] # jobs[j]
           /\ jobs[j].surface = "template" \/ jobs'[j].surface = "template"
           /\ ~jobs[j].ok) => options' = options
     /\ (lastDone'.surface = "template" /\ lastDone'.path \in FailedPaths) =>
          (lastDone'.refreshes = 0 /\ options' = options)]_vars

\* A template handler has returned after a response that was not 2xx, with
\* templates listed in the select.
C23_Witness ==
  /\ lastDone.surface = "template"
  /\ lastDone.path = "rejected"
  /\ options # <<>>

\* Call k of showSheetIdForTemplate returns in this step.
LookupReturns(k) == lookups[k].pc # "idle" /\ lookups'[k].pc = "idle"

\* No call of showSheetIdForTemplate awaits an answer.
NoLookupPending == \A k \in LookupIds : lookups[k].pc = "idle"

\* C24: when the last pending lookup returns and it was made for a template
\* that is no longer the selected one (another was chosen, or the select
\* was reset), the sheet id displayed stays as it is.
C24_StaleLookupNotShown ==
  [][\A k \in LookupIds :
       (LookupReturns(k) /\ NoLookupPending' /\ lookups[k].name # selected) =>
         currentSheetId' = currentSheetId]_vars

=============================================================================
